---- MODULE Spec2Model ----
(***************************************************************************)
(* A model of the board representation of patroclus: Square, Bitboard,    *)
(* Mailbox and Board (src/src/bits/mod.rs, src/src/position/).             *)
(*                                                                         *)
(* A Bitboard(u64) is modelled by the set of its set bit positions         *)
(* (Square indices 0..63); a u64 literal is decoded by BitboardNew from    *)
(* its four 16-bit groups as they are written in the source.              *)
(* An Option<T> is a sequence of length 0 (None) or 1 (Some).              *)
(* A Piece(Color, Role) is the pair <<c, r>>.                              *)
(*                                                                         *)
(* Both builds are modelled: with debug assertions (debug_verify and       *)
(* debug_assert! are checked, a failed one panics and ends the run with    *)
(* the board as it stood) and without (they are skipped).  A method is an  *)
(* operator from the board and the arguments to the board it leaves, the   *)
(* value it returns and whether it returned or panicked.                   *)
(***************************************************************************)
EXTENDS Integers, Sequences, FiniteSets

VARIABLES
    board,             \* the Board under operation: [colors, roles, kings, pieces]
    debug_assertions,  \* cfg!(debug_assertions) of the build
    status,            \* "ok", or "panic" once an assertion has failed
    nops,              \* number of mutating calls made so far
    ctor,              \* the constructor that made the board ("none": not made yet)
    placement,         \* the pm argument of from_placement
    bits,              \* the Bitboard a bitboard method is called on (self)
    copy,              \* a copy of that Bitboard taken before the calls
    sq,                \* the Square a square method is called on
    out,               \* the last call on bits or sq and what it returned
    entry,             \* the MagicEntry passed to try_make_table
    attacks,           \* the attack set of each blocker subset of entry.mask
    position,          \* the Position hashed, without its board: turn, castling, en_passant
    build              \* the build hashed with: target_endian and the values of const_random!

boardvars == <<board, ctor, placement>>
bitvars == <<bits, copy, sq, out>>
magicvars == <<entry, attacks>>
zobristvars == <<position, build>>

vars == <<board, debug_assertions, status, nops, ctor, placement,
          bits, copy, sq, out, entry, attacks, position, build>>

---------------------------------------------------------------------------
(* Bounds of the exploration *)

\* number of squares of BitPool the bitboards passed are made of
NumBits == 4

\* number of calls that change the board before a position is hashed
MaxHashOps == 2

\* number of squares of SquarePool the calls are made on
NumSquares == 4
\* number of non-king roles of RolePool the calls are made with
NumRoles == 2
\* number of mutating calls in a run
MaxOps == 3

---------------------------------------------------------------------------
(* Color, Role, Piece, Option *)

White == 0
Black == 1
Color == {White, Black}

Pawn == 0
Knight == 1
Bishop == 2
Rook == 3
Queen == 4
King == 5

\* Role::ITER_PIECE: the roles that own a role bitboard
ITER_PIECE == {Pawn, Knight, Bishop, Rook, Queen}

None == <<>>
Some(x) == <<x>>
IsSome(o) == o # None
Unwrap(o) == o[1]

Piece(c, r) == <<c, r>>

WHITE_PAWN == Piece(White, Pawn)
WHITE_KNIGHT == Piece(White, Knight)
WHITE_BISHOP == Piece(White, Bishop)
WHITE_ROOK == Piece(White, Rook)
WHITE_QUEEN == Piece(White, Queen)
WHITE_KING == Piece(White, King)
BLACK_PAWN == Piece(Black, Pawn)
BLACK_KNIGHT == Piece(Black, Knight)
BLACK_BISHOP == Piece(Black, Bishop)
BLACK_ROOK == Piece(Black, Rook)
BLACK_QUEEN == Piece(Black, Queen)
BLACK_KING == Piece(Black, King)

---------------------------------------------------------------------------
(* Square and Bitboard *)

COUNT == 64
Square == 0 .. (COUNT - 1)

\* Bitboard::new(0xAAAA_BBBB_CCCC_DDDD), w = <<AAAA, BBBB, CCCC, DDDD>>
BitboardNew(w) ==
    {s \in Square : (w[4 - (s \div 16)] \div (2 ^ (s % 16))) % 2 = 1}

BitboardEmpty == {}

\* Bitboard::square(s) = 1 << s
BitboardSquare(s) == {s}

\* (Bitboard::square(s) & self).is_any()
Contains(bb, s) == (BitboardSquare(s) \cap bb) # {}

\* self.0 |= 1 << s
Insert(bb, s) == bb \cup {s}

\* self.0 &= !(1 << s)
Remove(bb, s) == bb \ {s}

Count(bb) == Cardinality(bb)

\* a mirror of the ranks only: the file is kept
SquareFlipped_rank_mirror(s) == 8 * (7 - (s \div 8)) + (s % 8)

\* Flippable for Square: Square(63 - self.0)
SquareFlipped(s) == 63 - s

\* u64::reverse_bits: bit i of the result is bit 63 - i of x
Reverse_bits(x) == {COUNT - 1 - i : i \in x}

\* swap_bytes for reverse_bits: the ranks mirror, the files do not
BitboardFlipped_swap_bytes(bb) == {8 * (7 - (i \div 8)) + (i % 8) : i \in bb}

\* Flippable for Bitboard: Bitboard(self.0.reverse_bits())
BitboardFlipped(bb) == Reverse_bits(bb)

Is_empty(bb) == bb = {}
Is_any(bb) == bb # {}

\* u64::leading_zeros and u64::trailing_zeros: 64 for the value 0
Leading_zeros(x) ==
    IF x = {} THEN COUNT
    ELSE COUNT - 1 - (CHOOSE i \in x : \A j \in x : j <= i)

Trailing_zeros(x) ==
    IF x = {} THEN COUNT
    ELSE CHOOSE i \in x : \A j \in x : i <= j

\* Square::new(value): debug_assert!(value < 64) holds or is not compiled
SquareNew(value, dbg) == (~dbg) \/ value < COUNT

\* the outcome of a call of a method of Bitboard or Square: the value it
\* returns, whether it returned (or panicked), and the values Square::new
\* was called with on the way
Called(val, ok, made) == [val |-> val, ok |-> ok, made |-> made]

Largest_square_lowest(bb, dbg) ==
    IF Is_any(bb)
    THEN LET value == Trailing_zeros(bb) IN
         Called(Some(value), SquareNew(value, dbg), {value})
    ELSE Called(None, TRUE, {})

\* largest_square: bool::then runs the closure only if the bitboard is not
\* empty
Largest_square(bb, dbg) ==
    IF Is_any(bb)
    THEN LET value == 63 - Leading_zeros(bb) IN
         Called(Some(value), SquareNew(value, dbg), {value})
    ELSE Called(None, TRUE, {})

\* smallest_square: the argument of bool::then_some is evaluated before
\* then_some is called, whether the bitboard is empty or not
Smallest_square(bb, dbg) ==
    LET value == Trailing_zeros(bb)
        ok == SquareNew(value, dbg)
    IN  Called(IF ok /\ Is_any(bb) THEN Some(value) ELSE None, ok, {value})

\* Iterator for Bitboard, next(): the bitboard it leaves and what it yields
BitboardNext(bb, dbg) ==
    LET s == Largest_square(bb, dbg) IN
    [self |-> IF s.ok /\ IsSome(s.val) THEN Remove(bb, Unwrap(s.val)) ELSE bb,
     val  |-> s.val,
     ok   |-> s.ok,
     made |-> s.made]

---------------------------------------------------------------------------
(* Arithmetic of u64 on the set of the set bit positions *)

\* the borrow into bit i of a - b: a bit below i where a has 0 and b has 1,
\* and every bit between passes the borrow on (a has 0 or b has 1)
Borrow(a, b, i) ==
    \E j \in 0 .. (i - 1) :
        /\ j \notin a /\ j \in b
        /\ \A k \in (j + 1) .. (i - 1) : k \notin a \/ k \in b

\* u64::wrapping_sub: a - b modulo 2^64
Wrapping_sub(a, b) == {i \in Square : ((i \in a) # (i \in b)) # Borrow(a, b, i)}

\* the carry into bit i of a + b: a bit below i where both have 1, and every
\* bit between passes the carry on (one of them has 1)
Carry(a, b, i) ==
    \E j \in 0 .. (i - 1) :
        /\ j \in a /\ j \in b
        /\ \A k \in (j + 1) .. (i - 1) : k \in a \/ k \in b

\* u64::wrapping_add: a + b modulo 2^64
Wrapping_add(a, b) == {i \in Square : ((i \in a) # (i \in b)) # Carry(a, b, i)}

\* x << n and x >> n for n < 64
Shl(x, n) == {i + n : i \in {j \in x : j + n < COUNT}}
Shr(x, n) == {i - n : i \in {j \in x : j >= n}}

\* a * m modulo 2^64: the sum of a << i over the set bits i of m
RECURSIVE MulOver(_, _)
MulOver(a, m) ==
    IF m = {} THEN {}
    ELSE LET i == Trailing_zeros(m) IN
         Wrapping_add(Shl(a, i), MulOver(a, m \ {i}))

\* u64::wrapping_mul
Wrapping_mul(a, m) == MulOver(a, m)

\* a ^ b
Xor(a, b) == (a \ b) \cup (b \ a)

---------------------------------------------------------------------------
(* Subset enumeration.  Bitboard::subsets and Bitboard::subsets_slow are   *)
(* called by try_make_table and by the tests; their bodies are modelled    *)
(* as section 4.2 of the specification describes them.                     *)

\* next = (subset - mask) & mask
Next_subset(subset, mask) == Wrapping_sub(subset, mask) \cap mask

\* the enumeration from `subset` on, until next is the empty subset again
RECURSIVE SubsetsFrom(_, _)
SubsetsFrom(mask, subset) ==
    LET next == Next_subset(subset, mask) IN
    IF next = {} THEN <<subset>>
    ELSE <<subset>> \o SubsetsFrom(mask, next)

Subsets_nonempty(mask) == Tail(SubsetsFrom(mask, BitboardEmpty))

\* subsets(): every subset of the mask, starting from the empty one
Subsets(mask) == SubsetsFrom(mask, BitboardEmpty)

\* the reference enumeration over the bits of the mask that remain, from the
\* lowest: each bit of the mask doubles the subsets found so far
RECURSIVE SlowFrom(_, _)
SlowFrom(rest, acc) ==
    IF rest = {} THEN acc
    ELSE LET i == Trailing_zeros(rest) IN
         SlowFrom(rest \ {i}, acc \o [k \in DOMAIN acc |-> Insert(acc[k], i)])

Subsets_slow_nonempty(mask) == Tail(SlowFrom(mask, <<BitboardEmpty>>))

\* subsets_slow()
Subsets_slow(mask) == SlowFrom(mask, <<BitboardEmpty>>)

---------------------------------------------------------------------------
(* Magic tables (src/src/movegen/magic.rs).  A usize index is kept as the  *)
(* set of its set bits, so a Vec of length 1 << index_bits is a function   *)
(* on the subsets of 0 .. index_bits - 1.                                  *)

MagicEntry(mask, magic, index_bits) ==
    [mask |-> mask, magic |-> magic, index_bits |-> index_bits]

\* find_mask(r, s, board): the assertion holds for every role, and the
\* mask returned is Bitboard::EMPTY
Find_mask(r, s, b) == BitboardEmpty

\* magic_index(entry, blockers): `64 - index_bits` is the shift amount; a
\* shift by 64 overflows, which panics with debug assertions and shifts by
\* 64 % 64 = 0 without them
Magic_index(e, blockers, dbg) ==
    LET masked == blockers \cap e.mask
        hash == Wrapping_mul(masked, e.magic)
        shamt == 64 - e.index_bits
    IN  IF shamt < 64 THEN Called(Shr(hash, shamt), TRUE, {})
        ELSE IF dbg THEN Called({}, FALSE, {})
        ELSE Called(Shr(hash, shamt % 64), TRUE, {})

\* vec!(Bitboard::EMPTY; 1 << entry.index_bits)
EmptyTable(index_bits) == [i \in SUBSET (0 .. index_bits - 1) |-> BitboardEmpty]

\* what try_make_table ends with: Ok(table), Err(TableFillError), or a panic
TableOk(table) == [kind |-> "Ok", table |-> table, ok |-> TRUE]
TableErr == [kind |-> "Err", table |-> <<>>, ok |-> TRUE]
TablePanic == [kind |-> "panic", table |-> <<>>, ok |-> FALSE]

\* the loop of try_make_table over the blocker subsets subs[k..].  Line 45
\* leaves the attack set of the subset to be written (todo!()): it is the
\* value att[blockers] of the attack function passed here.  Indexing the
\* table out of its bounds panics.
RECURSIVE FillFrom(_, _, _, _, _, _)
FillFrom(e, att, subs, k, table, dbg) ==
    IF k > Len(subs) THEN TableOk(table)
    ELSE LET blockers == subs[k]
             moves == att[blockers]
             index == Magic_index(e, blockers, dbg)
         IN  IF ~index.ok THEN TablePanic
             ELSE IF index.val \notin DOMAIN table THEN TablePanic
             ELSE IF Is_empty(table[index.val])
                  THEN FillFrom(e, att, subs, k + 1,
                                [table EXCEPT ![index.val] = moves], dbg)
             ELSE IF table[index.val] # moves THEN TableErr
             ELSE FillFrom(e, att, subs, k + 1, table, dbg)

\* try_make_table(r, s, board, entry)
Try_make_table(e, att, dbg) ==
    FillFrom(e, att, Subsets(e.mask), 1, EmptyTable(e.index_bits), dbg)

---------------------------------------------------------------------------
(* Rank and File *)

\* the discriminants of enum Rank (First = 0 .. Eighth = 7) and of enum File
\* (A = 0 .. H = 7)
Rank == 0 .. 7
File == 0 .. 7

\* TryFrom<u32> for Rank and for File: Ok of the rank or file with
\* discriminant i, or Err(i)
RankTry_from(i) == IF i \in Rank THEN [ok |-> TRUE, val |-> i] ELSE [ok |-> FALSE, val |-> i]
FileTry_from(i) == IF i \in File THEN [ok |-> TRUE, val |-> i] ELSE [ok |-> FALSE, val |-> i]

Ok(v) == [ok |-> TRUE, val |-> v]
Err(v) == [ok |-> FALSE, val |-> v]

\* From<Rank> for char; a char is the one-character string
CharFromRank(r) ==
    CASE r = 0 -> "1" [] r = 1 -> "2" [] r = 2 -> "3" [] r = 3 -> "4"
      [] r = 4 -> "5" [] r = 5 -> "6" [] r = 6 -> "7" [] r = 7 -> "8"

\* TryFrom<char> for Rank
RankTry_from_char(ch) ==
    CASE ch = "1" -> Ok(0) [] ch = "2" -> Ok(1) [] ch = "3" -> Ok(2)
      [] ch = "4" -> Ok(3) [] ch = "5" -> Ok(4) [] ch = "6" -> Ok(5)
      [] ch = "7" -> Ok(6) [] ch = "8" -> Ok(7)
      [] OTHER -> Err(ch)

\* Rank::ITER and Rank::iter(): the array, in the order it is iterated
RankIter == <<0, 1, 2, 3, 4, 5, 6, 7>>

\* From<File> for char
CharFromFile(f) ==
    CASE f = 0 -> "a" [] f = 1 -> "b" [] f = 2 -> "c" [] f = 3 -> "d"
      [] f = 4 -> "e" [] f = 5 -> "f" [] f = 6 -> "g" [] f = 7 -> "h"

\* TryFrom<char> for File, reading upper-case letters
FileTry_from_char_upper(ch) ==
    CASE ch = "A" -> Ok(0) [] ch = "B" -> Ok(1) [] ch = "C" -> Ok(2)
      [] ch = "D" -> Ok(3) [] ch = "E" -> Ok(4) [] ch = "F" -> Ok(5)
      [] ch = "G" -> Ok(6) [] ch = "H" -> Ok(7)
      [] OTHER -> Err(ch)

\* TryFrom<char> for File
FileTry_from_char(ch) ==
    CASE ch = "a" -> Ok(0) [] ch = "b" -> Ok(1) [] ch = "c" -> Ok(2)
      [] ch = "d" -> Ok(3) [] ch = "e" -> Ok(4) [] ch = "f" -> Ok(5)
      [] ch = "g" -> Ok(6) [] ch = "h" -> Ok(7)
      [] OTHER -> Err(ch)

\* File::ITER and File::iter()
FileIter == <<0, 1, 2, 3, 4, 5, 6, 7>>

\* Square::ITER and Square::iter(): result[i] = Square::new(i) for i < COUNT
SquareIter == [i \in 1 .. COUNT |-> i - 1]

\* Square::rank and Square::file: try_from(..).unwrap()
Square_rank(s) == RankTry_from(s \div 8).val
Square_file(s) == FileTry_from(s % 8).val

RANK_MASKS ==
    << <<\hFF00, \h0000, \h0000, \h0000>>,
       <<\h00FF, \h0000, \h0000, \h0000>>,
       <<\h0000, \hFF00, \h0000, \h0000>>,
       <<\h0000, \h00FF, \h0000, \h0000>>,
       <<\h0000, \h0000, \hFF00, \h0000>>,
       <<\h0000, \h0000, \h00FF, \h0000>>,
       <<\h0000, \h0000, \h0000, \hFF00>>,
       <<\h0000, \h0000, \h0000, \h00FF>> >>

FILE_MASKS ==
    << <<\h0101, \h0101, \h0101, \h0101>>,
       <<\h0202, \h0202, \h0202, \h0202>>,
       <<\h0404, \h0404, \h0404, \h0404>>,
       <<\h0808, \h0808, \h0808, \h0808>>,
       <<\h1010, \h1010, \h1010, \h1010>>,
       <<\h2020, \h2020, \h2020, \h2020>>,
       <<\h4040, \h4040, \h4040, \h4040>>,
       <<\h8080, \h8080, \h8080, \h8080>> >>

\* Bitboard::rank(r) and Bitboard::file(f): the mask at index `r as usize`
BitboardRank(r) == BitboardNew(RANK_MASKS[r + 1])
BitboardFile(f) == BitboardNew(FILE_MASKS[f + 1])

---------------------------------------------------------------------------
(* Castling *)

Kingside == 0
Queenside == 1
CastlingSide == {Kingside, Queenside}

\* CastlingRights(ks, qs) and Castling(white, black)
CastlingRights(ks, qs) == <<ks, qs>>
Castling(w, b) == <<w, b>>

CastlingNew == Castling(CastlingRights(FALSE, FALSE), CastlingRights(FALSE, FALSE))
CastlingDefault == Castling(CastlingRights(TRUE, TRUE), CastlingRights(TRUE, TRUE))

\* get(c).can_castle(cs)
Can_castle(castling, c, cs) == castling[c + 1][cs + 1]

\* get(c): the rights of colour c
CastlingGet(castling, c) == castling[c + 1]

\* set(c, cr): self.0 = cr or self.1 = cr
CastlingSet(castling, c, cr) == [castling EXCEPT ![c + 1] = cr]

\* remove(c, cs): the match is a value expression, so `&mut match ...` borrows
\* a temporary that holds a copy of the selected bool; `*rights = false`
\* writes to the temporary and self keeps its four rights
CastlingRemove(castling, c, cs) ==
    LET rights == castling[c + 1][cs + 1]
        written == FALSE
    IN  castling

\* clear(): both colours get CastlingRights(false, false)
CastlingClear(castling) ==
    Castling(CastlingRights(FALSE, FALSE), CastlingRights(FALSE, FALSE))

\* iter_rights(), called by the hash of Castling: its body is not in the
\* sources; it yields (colour, side, right) for the four rights
Iter_rights(castling) ==
    [k \in 1 .. 4 |->
        LET c == (k - 1) \div 2
            cs == (k - 1) % 2
        IN  <<c, cs, Can_castle(castling, c, cs)>>]

---------------------------------------------------------------------------
(* Zobrist hashing (src/src/position/zobrist.rs).  A u64 is the set of its *)
(* set bits.  const_random!(u64) is replaced by one literal where it is    *)
(* written, when the crate is built: build.prns holds the literal of each  *)
(* of the four places it is written in.                                    *)

\* Board::ZOBRIST_PRNS[s][c][r]: the loop assigns the literal written in its
\* body to each of the 64 x 2 x 6 entries
Board_ZOBRIST_PRNS(bld, s, c, r) == bld.prns.board

\* Color::ZOBRIST_PRN
Color_ZOBRIST_PRN(bld) == bld.prns.color

\* Castling::ZOBRIST_PRNS[c][cs] = [[const_random!(u64); 2]; 2]: the array
\* repeat expression copies the one value
Castling_ZOBRIST_PRNS(bld, c, cs) == bld.prns.castling

\* File::ZOBRIST_PRNS[f] = [const_random!(u64); 8]
File_ZOBRIST_PRNS(bld, f) == bld.prns.file

\* byte k of x, counted from the least significant, as a u8
ByteOf(x, k) == {i - 8 * k : i \in {j \in x : j \div 8 = k}}

\* u64::to_ne_bytes
To_ne_bytes(x, bld) ==
    [k \in 1 .. 8 |->
        IF bld.target_endian = "little" THEN ByteOf(x, k - 1) ELSE ByteOf(x, 8 - k)]

\* n & 8 on i32
AndEight(n) == IF (n \div 8) % 2 = 1 THEN 8 ELSE 0

\* the loop of ZobristHasher::write over bytes[k..]: a shift by 64 or more
\* panics with debug assertions and shifts by the amount modulo 64 without
RECURSIVE WriteFrom(_, _, _, _, _, _)
WriteFrom(h, bytes, k, shamt, bld, dbg) ==
    IF k > Len(bytes) THEN Called(h, TRUE, {})
    ELSE LET sh == IF bld.target_endian = "little"
                   THEN AndEight(shamt + 1)
                   ELSE AndEight(shamt - 1)
             amount == sh * 8
         IN  IF amount >= 64 /\ dbg THEN Called(h, FALSE, {amount})
             ELSE LET res == WriteFrom(Xor(h, Shl(bytes[k], amount % 64)),
                                       bytes, k + 1, sh, bld, dbg)
                  IN  Called(res.val, res.ok, res.made \cup {amount})

\* ZobristHasher::write(bytes)
Write(h, bytes, bld, dbg) ==
    WriteFrom(h, bytes, 1, IF bld.target_endian = "little" THEN 0 ELSE 7, bld, dbg)

\* Hasher::write_u64(i): self.write(&i.to_ne_bytes())
Write_u64(h, x, bld, dbg) == Write(h, To_ne_bytes(x, bld), bld, dbg)

\* the hasher after a step, if the one before has not panicked
Then_write(res, x, bld, dbg) ==
    IF ~res.ok THEN res
    ELSE LET w == Write_u64(res.val, x, bld, dbg) IN
         Called(w.val, w.ok, res.made \cup w.made)

\* Hash for Board: iter_pieces (its body is not in the sources) yields the
\* squares in ascending order with their mailbox entries; the loop over the
\* occupied squares of `rest`
RECURSIVE BoardHashFrom(_, _, _, _, _)
BoardHashFrom(res, b, rest, bld, dbg) ==
    IF rest = {} THEN res
    ELSE LET s == Trailing_zeros(rest)
             p == Unwrap(b.pieces[s])
             prn == Board_ZOBRIST_PRNS(bld, s, p[1], p[2])
         IN  BoardHashFrom(Then_write(res, prn, bld, dbg), b, rest \ {s}, bld, dbg)

BoardHash(res, b, bld, dbg) ==
    BoardHashFrom(res, b, {s \in Square : IsSome(b.pieces[s])}, bld, dbg)

\* Hash for Color
ColorHash(res, c, bld, dbg) ==
    IF c = Black THEN Then_write(res, Color_ZOBRIST_PRN(bld), bld, dbg) ELSE res

\* Hash for Castling: the loop over the rights rights[k..]
RECURSIVE CastlingHashFrom(_, _, _, _, _)
CastlingHashFrom(res, rights, k, bld, dbg) ==
    IF k > Len(rights) THEN res
    ELSE LET c == rights[k][1]
             cs == rights[k][2]
             cr == rights[k][3]
         IN  CastlingHashFrom(
                 IF cr THEN Then_write(res, Castling_ZOBRIST_PRNS(bld, c, cs), bld, dbg)
                       ELSE res,
                 rights, k + 1, bld, dbg)

CastlingHash(res, castling, bld, dbg) ==
    CastlingHashFrom(res, Iter_rights(castling), 1, bld, dbg)

\* Hash for File
FileHash(res, f, bld, dbg) == Then_write(res, File_ZOBRIST_PRNS(bld, f), bld, dbg)

\* ZobristHasher::new()
ZobristHasherNew == Called({}, TRUE, {})

\* Hash for Position, into a new ZobristHasher; .val is finish()
PositionHash(b, pos, bld, dbg) ==
    LET h1 == BoardHash(ZobristHasherNew, b, bld, dbg)
        h2 == ColorHash(h1, pos.turn, bld, dbg)
        h3 == CastlingHash(h2, pos.castling, bld, dbg)
    IN  IF IsSome(pos.en_passant)
        THEN FileHash(h3, Square_file(Unwrap(pos.en_passant)), bld, dbg)
        ELSE h3

---------------------------------------------------------------------------
(* Mailbox *)

MailboxNew ==
    [s \in Square |->
        IF s = 4 THEN Some(Piece(White, King))
        ELSE IF s = 60 THEN Some(Piece(Black, King))
        ELSE None]

MailboxDefault ==
    [s \in Square |->
        CASE s \in {0, 7} -> Some(WHITE_ROOK)
          [] s \in {1, 6} -> Some(WHITE_KNIGHT)
          [] s \in {2, 5} -> Some(WHITE_BISHOP)
          [] s = 3 -> Some(WHITE_QUEEN)
          [] s = 4 -> Some(WHITE_KING)
          [] s >= 8 /\ s < 16 -> Some(WHITE_PAWN)
          [] s \in {56, 63} -> Some(BLACK_ROOK)
          [] s \in {57, 62} -> Some(BLACK_KNIGHT)
          [] s \in {58, 61} -> Some(BLACK_BISHOP)
          [] s = 59 -> Some(BLACK_QUEEN)
          [] s = 60 -> Some(BLACK_KING)
          [] s >= 48 /\ s < 56 -> Some(BLACK_PAWN)
          [] OTHER -> None]

MailboxFlipped_off_by_one(m) ==
    [i \in Square |-> IF i = 0 THEN None ELSE m[64 - i]]

\* Flippable for Mailbox: flipped.0[i] = self.0[63 - i] for i in 0..64
MailboxFlipped(m) == [i \in Square |-> m[63 - i]]

---------------------------------------------------------------------------
(* Board: constructors *)

BoardNew ==
    LET white_king == 4
        black_king == 60
    IN [colors |-> <<BitboardSquare(white_king), BitboardSquare(black_king)>>,
        roles  |-> [r \in ITER_PIECE |-> BitboardEmpty],
        kings  |-> <<white_king, black_king>>,
        pieces |-> MailboxNew]

WHITE_DEFAULT == BitboardNew(<<\h0000, \h0000, \h0000, \hFFFF>>)
BLACK_DEFAULT == BitboardNew(<<\hFFFF, \h0000, \h0000, \h0000>>)
\* mutant: the white pawns written into the 16-bit group of the third rank
PAWNS_DEFAULT_third_rank == BitboardNew(<<\h00FF, \h0000, \h00FF, \h0000>>)

PAWNS_DEFAULT == BitboardNew(<<\h00FF, \h0000, \h0000, \hFF00>>)
KNIGHTS_DEFAULT == BitboardNew(<<\h4200, \h0000, \h0000, \h0042>>)
BISHOPS_DEFAULT == BitboardNew(<<\h2400, \h0000, \h0000, \h0024>>)
ROOKS_DEFAULT == BitboardNew(<<\h8100, \h0000, \h0000, \h0081>>)
QUEENS_DEFAULT == BitboardNew(<<\h0800, \h0000, \h0000, \h0008>>)

BoardDefault ==
    [colors |-> <<WHITE_DEFAULT, BLACK_DEFAULT>>,
     roles  |-> [r \in ITER_PIECE |->
                    CASE r = Pawn -> PAWNS_DEFAULT
                      [] r = Knight -> KNIGHTS_DEFAULT
                      [] r = Bishop -> BISHOPS_DEFAULT
                      [] r = Rook -> ROOKS_DEFAULT
                      [] r = Queen -> QUEENS_DEFAULT],
     kings  |-> <<4, 52>>,
     pieces |-> MailboxDefault]

\* colors and kings are indexed by `c as usize`: sequences are 1-based
Idx(c) == c + 1

---------------------------------------------------------------------------
(* Board: debug_verify and the read methods *)

\* the assertions of debug_verify, in order
VerifyColors(b) == (b.colors[Idx(White)] \cap b.colors[Idx(Black)]) = BitboardEmpty

VerifyRoles(b) ==
    \A r1, r2 \in ITER_PIECE : r1 < r2 => (b.roles[r1] \cap b.roles[r2]) = {}

VerifyKings(b) == b.kings[Idx(White)] # b.kings[Idx(Black)]

\* for every square of a colour bitboard: in exactly one role bitboard or
\* on the king square of that colour
VerifyOverlap(b) ==
    \A c \in Color : \A s \in b.colors[Idx(c)] :
        Cardinality({r \in ITER_PIECE : Contains(b.roles[r], s)})
            + (IF b.kings[Idx(c)] = s THEN 1 ELSE 0) = 1

VerifyMailbox(b) ==
    \A s \in Square :
        LET o_p == b.pieces[s] IN
        IF o_p = None
        THEN ~Contains(b.colors[Idx(White)], s) /\ ~Contains(b.colors[Idx(Black)], s)
        ELSE LET c == Unwrap(o_p)[1]
                 r == Unwrap(o_p)[2]
             IN /\ Contains(b.colors[Idx(c)], s)
                /\ IF r = King THEN b.kings[Idx(c)] = s
                               ELSE Contains(b.roles[r], s)

\* TRUE iff debug_verify runs through without a failed assertion
Verified(b) ==
    /\ VerifyColors(b)
    /\ VerifyRoles(b)
    /\ VerifyKings(b)
    /\ VerifyOverlap(b)
    /\ VerifyMailbox(b)

\* debug_verify(): returns at once unless cfg!(debug_assertions)
DebugVerify(b, dbg) == (~dbg) \/ Verified(b)

King_square(b, c) == b.kings[Idx(c)]
King_bitboard(b, c) == BitboardSquare(King_square(b, c))
ColorOf(b, c) == b.colors[Idx(c)]
RoleOf(b, r) == b.roles[r]
PieceOf(b, p) == ColorOf(b, p[1]) \cap RoleOf(b, p[2])
All(b) == b.colors[Idx(White)] \cup b.colors[Idx(Black)]

---------------------------------------------------------------------------
(* Results of a call: the board it leaves, what it returns, and whether it *)
(* returned (ok) or stopped at a failed assertion or unwrap (~ok)          *)

Returned(b, ret) == [board |-> b, ret |-> ret, ok |-> TRUE]
Panicked(b, ret) == [board |-> b, ret |-> ret, ok |-> FALSE]

\* get_bitboard(s): the piece on s as the bitboards and king squares see it
GetBitboard(b, s, dbg) ==
    IF ~DebugVerify(b, dbg) THEN Panicked(b, None)
    ELSE IF b.kings[1] = s THEN Returned(b, Some(WHITE_KING))
    ELSE IF b.kings[2] = s THEN Returned(b, Some(BLACK_KING))
    ELSE
        LET white == Contains(b.colors[Idx(White)], s)
            black == Contains(b.colors[Idx(Black)], s)
        IN  IF white /\ black THEN Panicked(b, None)
            ELSE IF ~white /\ ~black THEN Returned(b, None)
            ELSE LET c == IF white THEN White ELSE Black
                     rs == {r \in ITER_PIECE : Contains(b.roles[r], s)}
                 IN  IF rs = {} THEN Panicked(b, None)
                     ELSE Returned(b, Some(Piece(c,
                            CHOOSE r \in rs : \A q \in rs : r <= q)))

\* get(s): the mailbox entry, cross-checked against get_bitboard in debug builds
Get(b, s, dbg) ==
    IF ~DebugVerify(b, dbg) THEN Panicked(b, None)
    ELSE LET o_p == b.pieces[s]
             o_b == GetBitboard(b, s, dbg)
         IN
         IF dbg /\ (~o_b.ok \/ o_b.ret # o_p)
         THEN Panicked(b, None)
         ELSE Returned(b, o_p)

---------------------------------------------------------------------------
(* Board: update methods *)

SetColor(b, c, bb) == [b EXCEPT !.colors[Idx(c)] = bb]
SetRole(b, r, bb) == [b EXCEPT !.roles[r] = bb]
SetPiece(b, s, o_p) == [b EXCEPT !.pieces[s] = o_p]
SetKing(b, c, s) == [b EXCEPT !.kings[Idx(c)] = s]

\* mutant of place: the arm for a nonempty square is missing, so the piece
\* is put on the square whatever it holds
Place_on_occupied(b, s, p, dbg) ==
    IF ~DebugVerify(b, dbg) THEN Panicked(b, FALSE)
    ELSE
        LET c == p[1]
            r == p[2]
            res ==
                IF r = King THEN
                    LET old_s == b.kings[Idx(c)]
                        b1 == SetColor(b, c, Remove(b.colors[Idx(c)], old_s))
                        b2 == SetPiece(b1, old_s, None)
                        b3 == SetKing(b2, c, s)
                        b4 == SetColor(b3, c, Insert(b3.colors[Idx(c)], s))
                        b5 == SetPiece(b4, s, Some(p))
                    IN  Returned(b5, TRUE)
                ELSE
                    LET b1 == SetColor(b, c, Insert(b.colors[Idx(c)], s))
                        b2 == SetRole(b1, r, Insert(b1.roles[r], s))
                        b3 == SetPiece(b2, s, Some(p))
                    IN  Returned(b3, TRUE)
        IN  IF ~DebugVerify(res.board, dbg) THEN Panicked(res.board, FALSE)
            ELSE res

\* mutant of place: a king is added on s and the old king is left where it was
Place_second_king(b, s, p, dbg) ==
    IF ~DebugVerify(b, dbg) THEN Panicked(b, FALSE)
    ELSE
        LET c == p[1]
            r == p[2]
            res ==
                IF IsSome(b.pieces[s]) THEN Returned(b, FALSE)
                ELSE IF r = King THEN
                    LET b3 == SetKing(b, c, s)
                        b4 == SetColor(b3, c, Insert(b3.colors[Idx(c)], s))
                        b5 == SetPiece(b4, s, Some(p))
                    IN  Returned(b5, TRUE)
                ELSE
                    LET b1 == SetColor(b, c, Insert(b.colors[Idx(c)], s))
                        b2 == SetRole(b1, r, Insert(b1.roles[r], s))
                        b3 == SetPiece(b2, s, Some(p))
                    IN  Returned(b3, TRUE)
        IN  IF ~DebugVerify(res.board, dbg) THEN Panicked(res.board, FALSE)
            ELSE res

\* place(s, p)
Place(b, s, p, dbg) ==
    IF ~DebugVerify(b, dbg) THEN Panicked(b, FALSE)
    ELSE
        LET c == p[1]
            r == p[2]
            res ==
                IF IsSome(b.pieces[s]) THEN Returned(b, FALSE)
                ELSE IF r = King THEN
                    LET old_s == b.kings[Idx(c)]
                        b1 == SetColor(b, c, Remove(b.colors[Idx(c)], old_s))
                        b2 == SetPiece(b1, old_s, None)
                        b3 == SetKing(b2, c, s)
                        b4 == SetColor(b3, c, Insert(b3.colors[Idx(c)], s))
                        b5 == SetPiece(b4, s, Some(p))
                    IN  Returned(b5, TRUE)
                ELSE
                    LET b1 == SetColor(b, c, Insert(b.colors[Idx(c)], s))
                        b2 == SetRole(b1, r, Insert(b1.roles[r], s))
                        b3 == SetPiece(b2, s, Some(p))
                    IN  Returned(b3, TRUE)
        IN  IF ~DebugVerify(res.board, dbg) THEN Panicked(res.board, FALSE)
            ELSE res

\* replace(s, p)
Replace(b, s, p, dbg) ==
    IF dbg /\ p[2] = King THEN Panicked(b, None)
    ELSE IF ~DebugVerify(b, dbg) THEN Panicked(b, None)
    ELSE
        LET captured == b.pieces[s] IN
        IF dbg /\ IsSome(captured) /\ Unwrap(captured)[2] = King
        THEN Panicked(b, None)
        ELSE
            LET b1 == SetColor(b, p[1], Insert(b.colors[Idx(p[1])], s))
                b2 == SetRole(b1, p[2], Insert(b1.roles[p[2]], s))
                b3 == SetPiece(b2, s, Some(p))
            IN  IF ~DebugVerify(b3, dbg) THEN Panicked(b3, None)
                ELSE Returned(b3, captured)

\* move(s_from, s_to)
Move(b, s_from, s_to, dbg) ==
    IF ~DebugVerify(b, dbg) THEN Panicked(b, None)
    ELSE
    LET got_from == Get(b, s_from, dbg)
        got_to == Get(b, s_to, dbg)
    IN
    IF ~got_from.ok THEN Panicked(b, None)
    ELSE IF got_from.ret = None THEN Panicked(b, None)
    ELSE
        LET capturer == Unwrap(got_from.ret) IN
        IF dbg /\ capturer[2] = King THEN Panicked(b, None)
        ELSE IF ~got_to.ok THEN Panicked(b, None)
        ELSE
            LET captured == got_to.ret
                b1 == SetColor(b, capturer[1], Remove(b.colors[Idx(capturer[1])], s_from))
                b2 == SetRole(b1, capturer[2], Remove(b1.roles[capturer[2]], s_from))
                b3 == SetPiece(b2, s_from, None)
                b4 == SetColor(b3, capturer[1], Insert(b3.colors[Idx(capturer[1])], s_to))
                b5 == SetRole(b4, capturer[2], Insert(b4.roles[capturer[2]], s_to))
                b6 == SetPiece(b5, s_to, Some(capturer))
            IN  IF captured = None
                THEN IF ~DebugVerify(b6, dbg) THEN Panicked(b6, None)
                     ELSE Returned(b6, captured)
                ELSE
                    LET cap == Unwrap(captured) IN
                    IF dbg /\ (cap[2] = King \/ capturer[1] = cap[1])
                    THEN Panicked(b6, None)
                    ELSE
                        LET b7 == SetColor(b6, cap[1], Remove(b6.colors[Idx(cap[1])], s_to))
                            b8 == IF cap[2] = King THEN b7
                                  ELSE SetRole(b7, cap[2], Remove(b7.roles[cap[2]], s_to))
                        IN  IF cap[2] = King THEN Panicked(b7, None)
                            ELSE IF ~DebugVerify(b8, dbg) THEN Panicked(b8, None)
                            ELSE Returned(b8, captured)

\* mutant of king_move: the captured piece is not cleared from its bitboards
King_move_keeps_captured(b, c, s_to, dbg) ==
    IF ~DebugVerify(b, dbg) THEN Panicked(b, None)
    ELSE
        LET s_from == b.kings[Idx(c)]
            got_to == Get(b, s_to, dbg)
        IN
        IF ~got_to.ok THEN Panicked(b, None)
        ELSE
            LET captured == got_to.ret
                b1 == SetColor(b, c, Remove(b.colors[Idx(c)], s_from))
                b2 == SetPiece(b1, s_from, None)
                b3 == SetColor(b2, c, Insert(b2.colors[Idx(c)], s_to))
                b4 == SetPiece(b3, s_to, Some(Piece(c, King)))
                b5 == SetKing(b4, c, s_to)
            IN  IF ~DebugVerify(b5, dbg) THEN Panicked(b5, None)
                ELSE Returned(b5, captured)

\* king_move(c, s_to)
King_move(b, c, s_to, dbg) ==
    IF ~DebugVerify(b, dbg) THEN Panicked(b, None)
    ELSE
        LET s_from == b.kings[Idx(c)]
            got_to == Get(b, s_to, dbg)
        IN
        IF ~got_to.ok THEN Panicked(b, None)
        ELSE
            LET captured == got_to.ret
                b1 == SetColor(b, c, Remove(b.colors[Idx(c)], s_from))
                b2 == SetPiece(b1, s_from, None)
                b3 == SetColor(b2, c, Insert(b2.colors[Idx(c)], s_to))
                b4 == SetPiece(b3, s_to, Some(Piece(c, King)))
                b5 == SetKing(b4, c, s_to)
            IN  IF captured = None
                THEN IF ~DebugVerify(b5, dbg) THEN Panicked(b5, None)
                     ELSE Returned(b5, captured)
                ELSE
                    LET cap == Unwrap(captured) IN
                    IF dbg /\ (cap[2] = King \/ c = cap[1])
                    THEN Panicked(b5, None)
                    ELSE
                        LET b6 == SetColor(b5, cap[1], Remove(b5.colors[Idx(cap[1])], s_to))
                            b7 == IF cap[2] = King THEN b6
                                  ELSE SetRole(b6, cap[2], Remove(b6.roles[cap[2]], s_to))
                        IN  IF cap[2] = King THEN Panicked(b6, None)
                            ELSE IF ~DebugVerify(b7, dbg) THEN Panicked(b7, None)
                            ELSE Returned(b7, captured)

\* Flippable for Board
BoardFlipped(b) ==
    [colors |-> <<BitboardFlipped(b.colors[1]), BitboardFlipped(b.colors[2])>>,
     roles  |-> [r \in ITER_PIECE |-> BitboardFlipped(b.roles[r])],
     kings  |-> <<SquareFlipped(b.kings[1]), SquareFlipped(b.kings[2])>>,
     pieces |-> MailboxFlipped(b.pieces)]

---------------------------------------------------------------------------
(* The calls explored: squares and pieces the callers pass *)

SquarePool == <<4, 60, 11, 52, 27, 36>>
RolePool == <<Pawn, Queen, Knight, Rook, Bishop>>

Squares == {SquarePool[i] : i \in 1 .. NumSquares}
Roles == {RolePool[i] : i \in 1 .. NumRoles}
NonKingPieces == {Piece(c, r) : c \in Color, r \in Roles}
Pieces == NonKingPieces \cup {Piece(c, King) : c \in Color}

Other(c) == IF c = White THEN Black ELSE White

\* the documented preconditions (the "# Preconditions" / "# Requires" of the
\* doc comments), read on the mailbox as the methods read them
ReplacePre(b, s, p) ==
    /\ p[2] # King
    /\ (IsSome(b.pieces[s]) => Unwrap(b.pieces[s])[2] # King)

MovePre(b, s_from, s_to) ==
    /\ IsSome(b.pieces[s_from])
    /\ Unwrap(b.pieces[s_from])[2] # King
    /\ IsSome(b.pieces[s_to]) =>
          /\ Unwrap(b.pieces[s_to])[2] # King
          /\ Unwrap(b.pieces[s_to])[1] # Unwrap(b.pieces[s_from])[1]

King_movePre(b, c, s_to) ==
    IsSome(b.pieces[s_to]) =>
          /\ Unwrap(b.pieces[s_to])[2] # King
          /\ Unwrap(b.pieces[s_to])[1] # c

\* a call made on the board: the board it leaves is the next state
Step(res) ==
    /\ board' = res.board
    /\ status' = IF res.ok THEN "ok" ELSE "panic"
    /\ nops' = nops + 1
    /\ UNCHANGED <<debug_assertions, ctor, placement>>
    /\ UNCHANGED <<bitvars, magicvars, zobristvars>>

\* the variables of the parts of the program a run does not use
NoBits == bits = {} /\ copy = {} /\ sq = 0 /\ out = <<>>
NoMagic == entry = <<>> /\ attacks = <<>>
NoZobrist == position = <<>> /\ build = <<>>

\* a panic ends the run
Ready == status = "ok" /\ nops < MaxOps

Init ==
    /\ board = BoardNew
    /\ debug_assertions \in BOOLEAN
    /\ status = "ok"
    /\ nops = 0
    /\ ctor = "new"
    /\ placement = None
    /\ NoBits /\ NoMagic /\ NoZobrist

DoPlace ==
    /\ Ready
    /\ \E s \in Squares, p \in Pieces :
          Step(Place(board, s, p, debug_assertions))

DoReplace ==
    /\ Ready
    /\ \E s \in Squares, p \in NonKingPieces :
          /\ ReplacePre(board, s, p)
          /\ Step(Replace(board, s, p, debug_assertions))

DoMove ==
    /\ Ready
    /\ \E s_from \in Squares, s_to \in Squares :
          /\ MovePre(board, s_from, s_to)
          /\ Step(Move(board, s_from, s_to, debug_assertions))

DoKing_move ==
    /\ Ready
    /\ \E c \in Color, s_to \in Squares :
          /\ King_movePre(board, c, s_to)
          /\ Step(King_move(board, c, s_to, debug_assertions))

Next == DoPlace \/ DoReplace \/ DoMove \/ DoKing_move

Spec == Init /\ [][Next]_vars

---------------------------------------------------------------------------
(* The constructors: Board::new(), Board::default(), Board::from_placement  *)

\* Mailbox::from_placement(pm)
MailboxFrom_placement(pm) == pm

\* the loop of from_placement over the mailbox, from square s on, in the
\* ascending order Mailbox::into_iter yields the squares in
RECURSIVE PlaceFrom(_, _, _, _)
PlaceFrom(b, mailbox, s, dbg) ==
    IF s = COUNT THEN Returned(b, TRUE)
    ELSE IF mailbox[s] = None THEN PlaceFrom(b, mailbox, s + 1, dbg)
    ELSE LET res == Place(b, s, Unwrap(mailbox[s]), dbg) IN
         IF ~res.ok THEN res
         ELSE PlaceFrom(res.board, mailbox, s + 1, dbg)

\* Board::from_placement(pm)
From_placement(pm, dbg) ==
    LET res == PlaceFrom(BoardNew, MailboxFrom_placement(pm), 0, dbg) IN
    IF ~res.ok THEN res
    ELSE IF ~DebugVerify(res.board, dbg) THEN Panicked(res.board, FALSE)
    ELSE res

\* the number of squares of a placement that hold piece p
CountOf(pm, p) == Cardinality({s \in Square : pm[s] = Some(p)})

\* the placements passed: pieces on the squares of the pool, the other
\* squares empty, one king of each colour (the placement of a position)
Placements ==
    {pm \in {[s \in Square |-> IF s \in Squares THEN f[s] ELSE None] :
                f \in [Squares -> {None} \cup {Some(p) : p \in Pieces}]} :
        \A c \in Color : CountOf(pm, Piece(c, King)) = 1}

Constructed(res, name) ==
    /\ ctor = "none"
    /\ board' = res.board
    /\ status' = IF res.ok THEN "ok" ELSE "panic"
    /\ ctor' = name
    /\ UNCHANGED <<debug_assertions, nops, placement>>
    /\ UNCHANGED <<bitvars, magicvars, zobristvars>>

InitCtor ==
    /\ board = BoardNew
    /\ debug_assertions \in BOOLEAN
    /\ status = "ok"
    /\ nops = 0
    /\ ctor = "none"
    /\ placement \in Placements
    /\ NoBits /\ NoMagic /\ NoZobrist

DoNew == Constructed(Returned(BoardNew, TRUE), "new")

DoDefault == Constructed(Returned(BoardDefault, TRUE), "default")

DoFrom_placement ==
    Constructed(From_placement(placement, debug_assertions), "from_placement")

NextCtor == DoNew \/ DoDefault \/ DoFrom_placement

SpecCtor == InitCtor /\ [][NextCtor]_vars

---------------------------------------------------------------------------
(* Flipping a constructed board: Board::flipped() takes &self and returns  *)
(* the flipped board, which here becomes the board under operation.        *)

DoFlipped ==
    /\ ctor # "none"
    /\ status = "ok"
    /\ board' = BoardFlipped(board)
    /\ UNCHANGED <<debug_assertions, status, nops, ctor, placement>>
    /\ UNCHANGED <<bitvars, magicvars, zobristvars>>

NextFlip == DoNew \/ DoDefault \/ DoFrom_placement \/ DoFlipped

SpecFlip == InitCtor /\ [][NextFlip]_vars

---------------------------------------------------------------------------
(* The methods of Square and Bitboard that take self by value and return   *)
(* a value: one call on the bitboard `bits` or on the square `sq`.         *)

BitPool == <<0, 63, 42, 21, 7, 56, 35, 28>>
Bits == {BitPool[i] : i \in 1 .. NumBits}

InitBits ==
    /\ board = BoardNew /\ ctor = "new" /\ placement = None
    /\ debug_assertions \in BOOLEAN
    /\ status = "ok"
    /\ nops = 0
    /\ bits \in SUBSET Bits
    /\ copy = bits
    /\ sq \in Square
    /\ out = <<>>
    /\ NoMagic /\ NoZobrist

\* the call op(arg), which ends with res
BitsCall(op, arg, res) ==
    /\ status = "ok"
    /\ out = <<>>
    /\ out' = [op |-> op, arg |-> arg, res |-> res]
    /\ status' = IF res.ok THEN "ok" ELSE "panic"
    /\ UNCHANGED <<debug_assertions, nops, bits, copy, sq>>
    /\ UNCHANGED <<boardvars, magicvars, zobristvars>>

DoSquareFlipped == BitsCall("Square::flipped", sq, Called(SquareFlipped(sq), TRUE, {}))

DoBitboardFlipped ==
    BitsCall("Bitboard::flipped", bits, Called(BitboardFlipped(bits), TRUE, {}))

DoSmallest_square ==
    BitsCall("smallest_square", bits, Smallest_square(bits, debug_assertions))

DoLargest_square ==
    BitsCall("largest_square", bits, Largest_square(bits, debug_assertions))

DoBitboardRank ==
    \E r \in Rank : BitsCall("Bitboard::rank", r, Called(BitboardRank(r), TRUE, {}))

DoBitboardFile ==
    \E f \in File : BitsCall("Bitboard::file", f, Called(BitboardFile(f), TRUE, {}))

DoSubsets == BitsCall("subsets", bits, Called(Subsets(bits), TRUE, {}))

DoSubsets_slow == BitsCall("subsets_slow", bits, Called(Subsets_slow(bits), TRUE, {}))

NextBits ==
    \/ DoSquareFlipped
    \/ DoBitboardFlipped
    \/ DoSmallest_square
    \/ DoLargest_square
    \/ DoBitboardRank
    \/ DoBitboardFile
    \/ DoSubsets
    \/ DoSubsets_slow

SpecBits == InitBits /\ [][NextBits]_vars

---------------------------------------------------------------------------
(* Iterating a bitboard: `for s in bits` calls next() until it is None,    *)
(* and a caller that holds the iterator can keep calling it after that.    *)

InitIter ==
    /\ board = BoardNew /\ ctor = "new" /\ placement = None
    /\ debug_assertions \in BOOLEAN
    /\ status = "ok"
    /\ nops = 0
    /\ bits \in SUBSET Bits
    /\ copy = bits
    /\ sq = 0
    /\ out = <<>>
    /\ NoMagic /\ NoZobrist

\* next(): nops counts the calls that yield a square
IterNext ==
    /\ status = "ok"
    /\ LET r == BitboardNext(bits, debug_assertions) IN
          /\ bits' = r.self
          /\ out' = [op |-> "next", arg |-> bits, res |-> Called(r.val, r.ok, r.made)]
          /\ status' = IF r.ok THEN "ok" ELSE "panic"
          /\ nops' = IF r.ok /\ IsSome(r.val) THEN nops + 1 ELSE nops
    /\ UNCHANGED <<debug_assertions, copy, sq>>
    /\ UNCHANGED <<boardvars, magicvars, zobristvars>>

NextIter == IterNext

\* the loop that drives the iterator makes its next call
SpecIter == InitIter /\ [][NextIter]_vars /\ WF_vars(IterNext)

---------------------------------------------------------------------------
(* Building a magic table: one call of try_make_table on an entry and an   *)
(* attack function.                                                        *)

\* the squares of the relevance masks, the multipliers and the attack sets
\* passed
MaskSquares == {1, 62}
MagicPool == {{}, {0}, {61}, {0, 62}}
AttackPool == {BitboardEmpty, {8}, {16}}
IndexBitsPool == 0 .. 2

InitMagic ==
    /\ board = BoardNew /\ ctor = "new" /\ placement = None
    /\ debug_assertions \in BOOLEAN
    /\ status = "ok"
    /\ nops = 0
    /\ bits = {} /\ copy = {} /\ sq = 0 /\ out = <<>>
    /\ \E mask \in SUBSET MaskSquares, magic \in MagicPool, index_bits \in IndexBitsPool :
          /\ entry = MagicEntry(mask, magic, index_bits)
          /\ attacks \in [SUBSET mask -> AttackPool]
    /\ NoZobrist

DoTry_make_table ==
    /\ status = "ok"
    /\ out = <<>>
    /\ LET res == Try_make_table(entry, attacks, debug_assertions) IN
          /\ out' = [op |-> "try_make_table", arg |-> entry, res |-> res]
          /\ status' = IF res.ok THEN "ok" ELSE "panic"
    /\ UNCHANGED <<debug_assertions, nops, bits, copy, sq>>
    /\ UNCHANGED <<boardvars, magicvars, zobristvars>>

\* the occupancies magic_index is called on: squares of the masks and one
\* square outside them
Occupancies == SUBSET (MaskSquares \cup {9})

\* one call of magic_index(&entry, occ)
DoMagic_index ==
    /\ status = "ok"
    /\ out = <<>>
    /\ \E occ \in Occupancies :
          LET res == Magic_index(entry, occ, debug_assertions) IN
          /\ out' = [op |-> "magic_index", arg |-> occ, res |-> res]
          /\ status' = IF res.ok THEN "ok" ELSE "panic"
    /\ UNCHANGED <<debug_assertions, nops, bits, copy, sq>>
    /\ UNCHANGED <<boardvars, magicvars, zobristvars>>

NextMagic == DoTry_make_table \/ DoMagic_index

SpecMagic == InitMagic /\ [][NextMagic]_vars

---------------------------------------------------------------------------
(* The search of find_magic.  bits is the mask, out.arg the index_bits     *)
(* passed, entry the candidate of the last pass of the loop, and out.res   *)
(* the pair returned, <<>> while the loop runs.  One pass draws a          *)
(* multiplier, builds the entry and calls try_make_table.  The mask is     *)
(* the one find_mask returns, or one a finished find_mask would return.    *)

Masks == {Find_mask(Rook, 0, BoardNew)} \cup SUBSET MaskSquares

\* the values of random::<u64>() & random::<u64>() & random::<u64>() drawn
DrawPool == MagicPool \cup {{1}}

\* the attack sets passed: the same for every blocker subset, or one that
\* differs with the number of blockers
AttacksOf(mask) ==
    { [blockers \in SUBSET mask |-> {8}],
      [blockers \in SUBSET mask |-> {8 * (1 + Cardinality(blockers))}] }

\* try_make_table is a function of the entry, the attack sets and the build:
\* its value for every call the search can make, computed once
SearchCalls ==
    UNION {{<<MagicEntry(mask, magic, index_bits), att, dbg>> :
               magic \in DrawPool, index_bits \in IndexBitsPool,
               att \in AttacksOf(mask), dbg \in BOOLEAN} :
           mask \in Masks}

Tabulated == {<<x, Try_make_table(x[1], x[2], x[3])>> : x \in SearchCalls}

Tried(e, att, dbg) == (CHOOSE p \in Tabulated : p[1] = <<e, att, dbg>>)[2]

InitFind ==
    /\ board = BoardNew /\ ctor = "new" /\ placement = None
    /\ debug_assertions \in BOOLEAN
    /\ status = "ok"
    /\ nops = 0
    /\ copy = {} /\ sq = 0
    /\ bits \in Masks
    /\ entry = <<>>
    /\ attacks \in AttacksOf(bits)
    /\ \E index_bits \in IndexBitsPool :
          out = [op |-> "find_magic", arg |-> index_bits, res |-> <<>>]
    /\ NoZobrist

\* one pass of a loop that returns the candidate whatever try_make_table
\* answers
Draw_unchecked(magic) ==
    /\ status = "ok"
    /\ out.res = <<>>
    /\ LET e == MagicEntry(bits, magic, out.arg)
           t == Tried(e, attacks, debug_assertions)
       IN  /\ entry' = e
           /\ out' = IF t.ok THEN [out EXCEPT !.res = <<e, t.table>>] ELSE out
           /\ status' = IF t.ok THEN "ok" ELSE "panic"
    /\ UNCHANGED <<debug_assertions, nops, bits, copy, sq, attacks>>
    /\ UNCHANGED <<boardvars, zobristvars>>

\* one pass of the loop with `magic` as the value of
\* random::<u64>() & random::<u64>() & random::<u64>()
Draw(magic) ==
    /\ status = "ok"
    /\ out.res = <<>>
    /\ LET e == MagicEntry(bits, magic, out.arg)
           t == Tried(e, attacks, debug_assertions)
       IN  /\ entry' = e
           /\ out' = IF t.kind = "Ok" THEN [out EXCEPT !.res = <<e, t.table>>] ELSE out
           /\ status' = IF t.ok THEN "ok" ELSE "panic"
    /\ UNCHANGED <<debug_assertions, nops, bits, copy, sq, attacks>>
    /\ UNCHANGED <<boardvars, zobristvars>>

DoFind_magic == \E magic \in DrawPool : Draw(magic)

NextFind == DoFind_magic

\* every value of the random draw comes up again and again
SpecFind ==
    InitFind /\ [][NextFind]_vars /\ \A magic \in DrawPool : WF_vars(Draw(magic))

---------------------------------------------------------------------------
(* Hashing a position: the board is changed by place, move and king_move,  *)
(* then the position is hashed into a new ZobristHasher.                   *)

\* a u64 literal, from its four 16-bit groups
U64(w) == BitboardNew(w)

\* the values const_random! can have given the four places it is written in
PrnsPool ==
    { [board    |-> U64(<<\h9E37, \h79B9, \h7F4A, \h7C15>>),
       color    |-> U64(<<\hC2B2, \hAE3D, \h27D4, \hEB4F>>),
       castling |-> U64(<<\h1656, \h67B1, \h9E37, \h79F9>>),
       file     |-> U64(<<\h27D4, \hEB2F, \h1656, \h67C5>>)],
      [board    |-> U64(<<\h0000, \h0000, \h0000, \h00A7>>),
       color    |-> U64(<<\h8000, \h0000, \h0000, \h0001>>),
       castling |-> U64(<<\h0000, \h0001, \h0000, \h0100>>),
       file     |-> U64(<<\hFFFF, \hFFFF, \hFFFF, \hFFFF>>)] }

Builds == [target_endian : {"little", "big"}, prns : PrnsPool]

\* the turn, castling rights and en passant square of the positions hashed
Positions ==
    { [turn |-> White, castling |-> CastlingNew, en_passant |-> None],
      [turn |-> Black, castling |-> CastlingDefault, en_passant |-> Some(19)],
      [turn |-> Black,
       castling |-> Castling(CastlingRights(FALSE, TRUE), CastlingRights(FALSE, FALSE)),
       en_passant |-> None] }

InitZobrist ==
    /\ board = BoardNew /\ ctor = "new" /\ placement = None
    /\ debug_assertions \in BOOLEAN
    /\ status = "ok"
    /\ nops = 0
    /\ NoBits /\ NoMagic
    /\ position \in Positions
    /\ build \in Builds

ReadyHash == status = "ok" /\ nops < MaxHashOps /\ out = <<>>

DoHashPlace ==
    /\ ReadyHash
    /\ \E s \in Squares, p \in Pieces :
          Step(Place(board, s, p, debug_assertions))

DoHashMove ==
    /\ ReadyHash
    /\ \E s_from \in Squares, s_to \in Squares :
          /\ MovePre(board, s_from, s_to)
          /\ Step(Move(board, s_from, s_to, debug_assertions))

DoHashKing_move ==
    /\ ReadyHash
    /\ \E c \in Color, s_to \in Squares :
          /\ King_movePre(board, c, s_to)
          /\ Step(King_move(board, c, s_to, debug_assertions))

\* position.hash(&mut ZobristHasher::new()), then finish()
DoHash ==
    /\ status = "ok"
    /\ out = <<>>
    /\ LET res == PositionHash(board, position, build, debug_assertions) IN
          /\ out' = [op |-> "hash", arg |-> board, res |-> res]
          /\ status' = IF res.ok THEN "ok" ELSE "panic"
    /\ UNCHANGED <<debug_assertions, nops, bits, copy, sq>>
    /\ UNCHANGED <<boardvars, magicvars, zobristvars>>

\* the feature constants of the build, and the states a hasher can be in
\* before one more of them is written
FeatureConstants ==
    {build.prns.board, build.prns.color, build.prns.castling, build.prns.file}

\* write_u64(x) on a hasher in state h
DoWrite_u64 ==
    /\ status = "ok"
    /\ out = <<>>
    /\ \E h \in {ZobristHasherNew.val} \cup FeatureConstants, x \in FeatureConstants :
          LET res == Write_u64(h, x, build, debug_assertions) IN
          /\ out' = [op |-> "write_u64", arg |-> <<h, x>>, res |-> res]
          /\ status' = IF res.ok THEN "ok" ELSE "panic"
    /\ UNCHANGED <<debug_assertions, nops, bits, copy, sq>>
    /\ UNCHANGED <<boardvars, magicvars, zobristvars>>

NextZobrist == DoHashPlace \/ DoHashMove \/ DoHashKing_move \/ DoHash \/ DoWrite_u64

SpecZobrist == InitZobrist /\ [][NextZobrist]_vars

---------------------------------------------------------------------------
(* The castling rights of a position: created by Castling::new() or        *)
(* Castling::default(), then read by get and changed by set, remove and    *)
(* clear.  out records the last call and the rights it was made on.        *)

AllRights == {CastlingRights(ks, qs) : ks \in BOOLEAN, qs \in BOOLEAN}

InitCastling ==
    /\ board = BoardNew /\ ctor = "new" /\ placement = None
    /\ debug_assertions \in BOOLEAN
    /\ status = "ok"
    /\ nops = 0
    /\ NoBits /\ NoMagic
    /\ \E castling \in {CastlingNew, CastlingDefault} :
          position = [turn |-> White, castling |-> castling, en_passant |-> None]
    /\ build = <<>>

CastlingCall(op, arg, after, res) ==
    /\ status = "ok"
    /\ position' = [position EXCEPT !.castling = after]
    /\ out' = [op |-> op, arg |-> <<position.castling>> \o arg, res |-> res]
    /\ UNCHANGED <<debug_assertions, status, nops, bits, copy, sq, build>>
    /\ UNCHANGED <<boardvars, magicvars>>

DoCastlingGet ==
    \E c \in Color :
        CastlingCall("get", <<c>>, position.castling, CastlingGet(position.castling, c))

DoCastlingSet ==
    \E c \in Color, cr \in AllRights :
        CastlingCall("set", <<c, cr>>, CastlingSet(position.castling, c, cr), <<>>)

DoCastlingRemove ==
    \E c \in Color, cs \in CastlingSide :
        CastlingCall("remove", <<c, cs>>, CastlingRemove(position.castling, c, cs), <<>>)

DoCastlingClear ==
    CastlingCall("clear", <<>>, CastlingClear(position.castling), <<>>)

NextCastling == DoCastlingGet \/ DoCastlingSet \/ DoCastlingRemove \/ DoCastlingClear

SpecCastling == InitCastling /\ [][NextCastling]_vars

---------------------------------------------------------------------------
(* Conversions of ranks and files from integers and characters and back,   *)
(* and the iterators over ranks, files and squares.  out records the last  *)
(* call; a character produced by a conversion can be converted back.       *)

IntPool == (0 .. 12) \cup {63, 64, 69, 255}
CharPool ==
    {"0", "1", "2", "3", "4", "5", "6", "7", "8", "9",
     "a", "b", "c", "d", "e", "f", "g", "h", "i", "A", "H", " "}

InitConv ==
    /\ board = BoardNew /\ ctor = "new" /\ placement = None
    /\ debug_assertions \in BOOLEAN
    /\ status = "ok"
    /\ nops = 0
    /\ NoBits /\ NoMagic /\ NoZobrist

ConvCall(op, arg, res) ==
    /\ status = "ok"
    /\ out' = [op |-> op, arg |-> arg, res |-> res]
    /\ UNCHANGED <<debug_assertions, status, nops, bits, copy, sq>>
    /\ UNCHANGED <<boardvars, magicvars, zobristvars>>

\* the characters a conversion can be given: any character, the last
\* character produced included
CharInputs ==
    CharPool \cup (IF out # <<>> /\ out.op \in {"char_from_rank", "char_from_file"}
                   THEN {out.res} ELSE {})

DoRankTry_from == \E i \in IntPool : ConvCall("rank_try_from", i, RankTry_from(i))
DoFileTry_from == \E i \in IntPool : ConvCall("file_try_from", i, FileTry_from(i))
DoCharFromRank == \E r \in Rank : ConvCall("char_from_rank", r, CharFromRank(r))
DoCharFromFile == \E f \in File : ConvCall("char_from_file", f, CharFromFile(f))
DoRankTry_from_char ==
    \E ch \in CharInputs : ConvCall("rank_try_from_char", ch, RankTry_from_char(ch))
DoFileTry_from_char ==
    \E ch \in CharInputs : ConvCall("file_try_from_char", ch, FileTry_from_char(ch))
DoRankIter == ConvCall("rank_iter", <<>>, RankIter)
DoFileIter == ConvCall("file_iter", <<>>, FileIter)
DoSquareIter == ConvCall("square_iter", <<>>, SquareIter)

NextConv ==
    \/ DoRankTry_from \/ DoFileTry_from
    \/ DoCharFromRank \/ DoCharFromFile
    \/ DoRankTry_from_char \/ DoFileTry_from_char
    \/ DoRankIter \/ DoFileIter \/ DoSquareIter

SpecConv == InitConv /\ [][NextConv]_vars

---------------------------------------------------------------------------
(* Properties of Board.  A property of a call is stated on every board a   *)
(* run reaches, for every call that can be made on it: Calling(res) is the *)
(* result of the call, the board it leaves included.                       *)

Running == status = "ok"

\* the role bitboards that contain s
RolesAt(b, s) == {r \in ITER_PIECE : Contains(b.roles[r], s)}

\* invariant (d) of the data model: the mailbox entry of s, the colour
\* bitboards and the one role bitboard or king square agree
SquareAgrees(b, s) ==
    LET o_p == b.pieces[s]
        kingsAt == {c \in Color : b.kings[Idx(c)] = s}
    IN  IF o_p = None
        THEN /\ \A c \in Color : ~Contains(b.colors[Idx(c)], s)
             /\ RolesAt(b, s) = {}
             /\ kingsAt = {}
        ELSE LET c == Unwrap(o_p)[1]
                 r == Unwrap(o_p)[2]
             IN  /\ Contains(b.colors[Idx(c)], s)
                 /\ ~Contains(b.colors[Idx(Other(c))], s)
                 /\ IF r = King
                    THEN kingsAt = {c} /\ RolesAt(b, s) = {}
                    ELSE kingsAt = {} /\ RolesAt(b, s) = {r}

BoardInvariants(b) ==
    /\ VerifyColors(b)
    /\ VerifyRoles(b)
    /\ VerifyKings(b)
    /\ \A s \in Square : SquareAgrees(b, s)

\* C1: from Board::new(), after any sequence of place, replace, move and
\* king_move calls whose documented preconditions hold, the board satisfies
\* the four board invariants and debug_verify has not failed.
C1_InvariantsKept ==
    /\ status # "panic"
    /\ Verified(board)
    /\ BoardInvariants(board)

\* C2: move(from, to) of a non-king mover onto an opposite-colour non-king
\* piece of any role: afterwards the mover's colour and role bitboards hold
\* to and not from, the captured colour bitboard does not hold to, and the
\* captured role bitboard does not hold to unless it is the mover's role.
C2_MoveCaptureBitboards ==
    Running =>
        \A from \in Squares, to \in Squares :
            (from # to /\ MovePre(board, from, to) /\ IsSome(board.pieces[to])) =>
                LET mover == Unwrap(board.pieces[from])
                    cap == Unwrap(board.pieces[to])
                    after == Move(board, from, to, debug_assertions).board
                IN  /\ Contains(after.colors[Idx(mover[1])], to)
                    /\ Contains(after.roles[mover[2]], to)
                    /\ ~Contains(after.colors[Idx(mover[1])], from)
                    /\ ~Contains(after.roles[mover[2]], from)
                    /\ ~Contains(after.colors[Idx(cap[1])], to)
                    /\ (cap[2] # mover[2] => ~Contains(after.roles[cap[2]], to))

\* C3: replace(s, p) with a non-king p returns the piece previously on s and
\* leaves only p on s: the mailbox, the colour bitboard of p and the role
\* bitboard of p hold it, and a previous piece of another colour or another
\* role is gone from its colour bitboard, respectively its role bitboard.
C3_ReplaceOverwrites ==
    Running =>
        \A s \in Squares, p \in NonKingPieces :
            ReplacePre(board, s, p) =>
                LET res == Replace(board, s, p, debug_assertions)
                    after == res.board
                    prev == board.pieces[s]
                IN  /\ res.ret = prev
                    /\ after.pieces[s] = Some(p)
                    /\ Contains(after.colors[Idx(p[1])], s)
                    /\ Contains(after.roles[p[2]], s)
                    /\ (IsSome(prev) /\ Unwrap(prev)[1] # p[1]) =>
                            ~Contains(after.colors[Idx(Unwrap(prev)[1])], s)
                    /\ (IsSome(prev) /\ Unwrap(prev)[2] # p[2]) =>
                            ~Contains(after.roles[Unwrap(prev)[2]], s)

\* C4: move(a, b), a # b, preconditions holding, returns the piece that was
\* on b; afterwards get(a) is None, get(b) is the piece that was on a, and
\* the mailbox entry of every other square is unchanged.
C4_MoveMailbox ==
    Running =>
        \A a \in Squares, b \in Squares :
            (a # b /\ MovePre(board, a, b)) =>
                LET res == Move(board, a, b, debug_assertions)
                    get_a == Get(res.board, a, debug_assertions)
                    get_b == Get(res.board, b, debug_assertions)
                IN  /\ res.ok
                    /\ res.ret = board.pieces[b]
                    /\ get_a.ok /\ get_a.ret = None
                    /\ get_b.ok /\ get_b.ret = board.pieces[a]
                    /\ \A s \in Square \ {a, b} :
                            res.board.pieces[s] = board.pieces[s]

\* C5: place(s, p) on an occupied square returns false and leaves the whole
\* board unchanged, for any p; on an empty square it returns true.
C5_PlaceOccupied ==
    Running =>
        \A s \in Squares, p \in Pieces :
            LET res == Place(board, s, p, debug_assertions) IN
            /\ res.ok
            /\ IsSome(board.pieces[s]) => (res.ret = FALSE /\ res.board = board)
            /\ board.pieces[s] = None => res.ret = TRUE

C5_Witness ==
    /\ Running
    /\ \E s \in Squares, p \in Pieces :
          /\ IsSome(board.pieces[s])
          /\ Unwrap(board.pieces[s])[2] # King
          /\ Unwrap(board.pieces[s])[1] # p[1]
          /\ Place(board, s, p, debug_assertions).ret = FALSE
          /\ Place(board, s, p, debug_assertions).board = board
    /\ \E s \in Squares, p \in Pieces :
          /\ board.pieces[s] = None
          /\ Place(board, s, p, debug_assertions).ret = TRUE

\* C6: place(s, king of colour c) on an empty square relocates the king:
\* king_square(c) is s, the mailbox holds the colour-c king on s only, the
\* previous king square is empty in the mailbox and in the colour-c
\* bitboard, and no role bitboard changes.  In every board reached the
\* mailbox holds exactly one king of each colour.
C6_PlaceKingRelocates ==
    /\ \A c \in Color : CountOf(board.pieces, Piece(c, King)) = 1
    /\ Running =>
        \A s \in Squares, c \in Color :
            board.pieces[s] = None =>
                LET res == Place(board, s, Piece(c, King), debug_assertions)
                    after == res.board
                    old_s == King_square(board, c)
                IN  /\ res.ok /\ res.ret = TRUE
                    /\ King_square(after, c) = s
                    /\ {q \in Square : after.pieces[q] = Some(Piece(c, King))} = {s}
                    /\ after.pieces[old_s] = None
                    /\ ~Contains(ColorOf(after, c), old_s)
                    /\ after.roles = board.roles

C6_Witness ==
    /\ Running
    /\ \E s \in Squares, c \in Color :
          /\ board.pieces[s] = None
          /\ King_square(board, c) # s
          /\ \E r \in ITER_PIECE : RoleOf(board, r) # {}
          /\ King_square(Place(board, s, Piece(c, King), debug_assertions).board, c) = s

\* C7: king_move(c, to), to empty or holding an opposite-colour non-king
\* piece, returns the piece previously on to; afterwards king_square(c) is
\* to, get(to) is the colour-c king, the previous king square is empty in
\* the mailbox and absent from the colour-c bitboard, a captured piece is
\* gone from its colour and role bitboards at to, and the other colour's
\* king square is unchanged.
C7_KingMove ==
    Running =>
        \A c \in Color, to \in Squares :
            King_movePre(board, c, to) =>
                LET res == King_move(board, c, to, debug_assertions)
                    after == res.board
                    old_s == King_square(board, c)
                    prev == board.pieces[to]
                    get_to == Get(after, to, debug_assertions)
                IN  /\ res.ok
                    /\ res.ret = prev
                    /\ King_square(after, c) = to
                    /\ get_to.ok /\ get_to.ret = Some(Piece(c, King))
                    /\ after.pieces[old_s] = None
                    /\ ~Contains(ColorOf(after, c), old_s)
                    /\ IsSome(prev) =>
                          /\ ~Contains(ColorOf(after, Unwrap(prev)[1]), to)
                          /\ ~Contains(RoleOf(after, Unwrap(prev)[2]), to)
                    /\ King_square(after, Other(c)) = King_square(board, Other(c))

C7_Witness ==
    /\ Running
    /\ \E c \in Color, to \in Squares :
          /\ IsSome(board.pieces[to])
          /\ King_movePre(board, c, to)
          /\ King_move(board, c, to, debug_assertions).ok
          /\ King_move(board, c, to, debug_assertions).ret = board.pieces[to]
          /\ King_square(King_move(board, c, to, debug_assertions).board, c) = to

---------------------------------------------------------------------------
(* Properties of the constructors, on the board a constructor returned     *)

\* C8: Board::new() has the white king on square 4, the black king on
\* square 60 and nothing else; Board::new() and Board::default() satisfy
\* the board invariants: king_square(c) is the square where the mailbox
\* holds the colour-c king, and no king square is in a role bitboard.
C8_ConstructorsConsistent ==
    /\ ctor = "new" =>
          \A s \in Square :
              board.pieces[s] = (IF s = 4 THEN Some(WHITE_KING)
                                 ELSE IF s = 60 THEN Some(BLACK_KING)
                                 ELSE None)
    /\ ctor \in {"new", "default"} =>
          /\ Verified(board)
          /\ BoardInvariants(board)
          /\ \A c \in Color :
                /\ {s \in Square : board.pieces[s] = Some(Piece(c, King))}
                      = {King_square(board, c)}
                /\ RolesAt(board, King_square(board, c)) = {}

\* C9: Board::from_placement(pm), pm holding exactly one king of each
\* colour, returns a board with get(s) = pm[s] for every square s.
C9_FromPlacementKeeps ==
    ctor = "from_placement" =>
        /\ status = "ok"
        /\ \A s \in Square :
              /\ Get(board, s, debug_assertions).ok
              /\ Get(board, s, debug_assertions).ret = placement[s]

\* C10: the default board has, per side, 8 pawns, 2 knights, 2 bishops,
\* 2 rooks, 1 queen and 1 king, counted through piece(c, r) and
\* king_square(c) and through the mailbox; all() is the 32 squares 0..15
\* and 48..63, and ranks 3 to 6 are empty.
StartCount(r) ==
    CASE r = Pawn -> 8
      [] r \in {Knight, Bishop, Rook} -> 2
      [] r \in {Queen, King} -> 1

C10_DefaultCounts ==
    ctor = "default" =>
        /\ \A c \in Color :
              /\ \A r \in ITER_PIECE :
                    /\ Count(PieceOf(board, Piece(c, r))) = StartCount(r)
                    /\ CountOf(board.pieces, Piece(c, r)) = StartCount(r)
              /\ Count(King_bitboard(board, c)) = StartCount(King)
              /\ CountOf(board.pieces, Piece(c, King)) = StartCount(King)
        /\ All(board) = (0 .. 15) \cup (48 .. 63)
        /\ \A s \in 16 .. 47 : ~Contains(All(board), s) /\ board.pieces[s] = None

C10_Witness ==
    /\ ctor = "default"
    /\ Count(All(board)) = 32
    /\ Count(PieceOf(board, BLACK_PAWN)) = 8

\* C11: for every board b that satisfies the board invariants,
\* flipped(flipped(b)) == b and flipped(b) satisfies the board invariants
\* too; flipped reflects every colour and role bitboard and both king
\* squares through i -> 63 - i and reverses the mailbox.
C11_FlipInvolution ==
    BoardInvariants(board) =>
        LET f == BoardFlipped(board) IN
        /\ BoardFlipped(f) = board
        /\ BoardInvariants(f)
        /\ \A c \in Color : f.colors[Idx(c)] = {63 - s : s \in board.colors[Idx(c)]}
        /\ \A r \in ITER_PIECE : f.roles[r] = {63 - s : s \in board.roles[r]}
        /\ \A c \in Color : f.kings[Idx(c)] = 63 - board.kings[Idx(c)]
        /\ \A s \in Square : f.pieces[63 - s] = board.pieces[s]

\* a board built by from_placement with a non-king piece on it, flipped
C11_Witness ==
    /\ ctor = "from_placement"
    /\ status = "ok"
    /\ BoardInvariants(board)
    /\ board.pieces = MailboxFlipped(MailboxFrom_placement(placement))
    /\ \E s \in Square : IsSome(board.pieces[s]) /\ Unwrap(board.pieces[s])[2] # King

---------------------------------------------------------------------------
(* Properties of Square and Bitboard *)

\* the number of times v occurs in the sequence q
Multiplicity(q, v) == Cardinality({k \in DOMAIN q : q[k] = v})

\* the values of the sequence q
Range(q) == {q[k] : k \in DOMAIN q}

C14_IterationDescends ==
    /\ [](/\ status = "ok"
          /\ bits \subseteq copy
          /\ nops + Count(bits) = Count(copy))
    /\ [][/\ copy' = copy
          /\ IF bits = BitboardEmpty
             THEN out'.res.val = None /\ bits' = bits
             ELSE /\ IsSome(out'.res.val)
                  /\ Unwrap(out'.res.val) \in bits
                  /\ \A s \in bits : s <= Unwrap(out'.res.val)
                  /\ bits' = bits \ {Unwrap(out'.res.val)}
                  /\ nops' = nops + 1
          /\ (out # <<>> /\ IsSome(out'.res.val))
                => (IsSome(out.res.val) /\ Unwrap(out'.res.val) < Unwrap(out.res.val))
         ]_vars
    /\ <>[](/\ bits = BitboardEmpty
            /\ nops = Count(copy)
            /\ out # <<>> /\ out.res.val = None)

\* a bitboard of at least three squares has been iterated to its end
C14_Witness ==
    /\ out # <<>> /\ out.op = "next" /\ out.res.val = None
    /\ bits = BitboardEmpty
    /\ Count(copy) >= 3 /\ nops = Count(copy)

\* C15: smallest_square and largest_square return None without failing on
\* the empty bitboard and Some of the lowest, respectively highest, square
\* of a bitboard that is not empty; no Square of index 64 or more is made.
C15_ExtremalSquares ==
    (out # <<>> /\ out.op \in {"smallest_square", "largest_square"}) =>
        /\ out.res.ok
        /\ status = "ok"
        /\ \A v \in out.res.made : v < COUNT
        /\ IF out.arg = BitboardEmpty
           THEN out.res.val = None
           ELSE /\ IsSome(out.res.val)
                /\ Unwrap(out.res.val) \in out.arg
                /\ \A s \in out.arg :
                      IF out.op = "smallest_square"
                      THEN Unwrap(out.res.val) <= s
                      ELSE s <= Unwrap(out.res.val)

\* C16: Bitboard::rank(r) contains s iff s.rank() = r and Bitboard::file(f)
\* contains s iff s.file() = f, for every rank, file and square, with
\* index = rank * 8 + file: rank(First) is the squares 0..7 and
\* rank(Eighth) the squares 56..63.
C16_RankFileMasks ==
    /\ (out # <<>> /\ out.op = "Bitboard::rank") =>
          /\ \A s \in Square : Contains(out.res.val, s) <=> (Square_rank(s) = out.arg)
          /\ \A s \in Square : Square_rank(s) * 8 + Square_file(s) = s
          /\ out.arg = 0 => out.res.val = 0 .. 7
          /\ out.arg = 7 => out.res.val = 56 .. 63
    /\ (out # <<>> /\ out.op = "Bitboard::file") =>
          \A s \in Square : Contains(out.res.val, s) <=> (Square_file(s) = out.arg)

\* C17: for every square s, flipped(s) has index 63 - index(s),
\* flipped(flipped(s)) = s, and the rank and the file both invert
\* (r -> 7 - r, f -> 7 - f); square 42 flips to square 21.
C17_SquareFlip ==
    (out # <<>> /\ out.op = "Square::flipped") =>
        LET f == out.res.val IN
        /\ f \in Square
        /\ f = 63 - out.arg
        /\ SquareFlipped(f) = out.arg
        /\ Square_rank(f) = 7 - Square_rank(out.arg)
        /\ Square_file(f) = 7 - Square_file(out.arg)
        /\ out.arg = 42 => f = 21

\* square 42 has been flipped
C17_Witness ==
    /\ out # <<>> /\ out.op = "Square::flipped"
    /\ sq = 42 /\ out.res.val = 21

\* C18: the flip of a bitboard is the image of the flip of its squares:
\* flipped(b) contains flipped(s) iff b contains s, for every b and s; so
\* flipped(flipped(b)) = b and count(flipped(b)) = count(b).
C18_BitboardFlip ==
    (out # <<>> /\ out.op = "Bitboard::flipped") =>
        LET f == out.res.val IN
        /\ \A s \in Square : Contains(f, SquareFlipped(s)) <=> Contains(out.arg, s)
        /\ BitboardFlipped(f) = out.arg
        /\ Count(f) = Count(out.arg)

\* a bitboard of at least two squares that is not its own flip has been
\* flipped
C18_Witness ==
    /\ out # <<>> /\ out.op = "Bitboard::flipped"
    /\ Count(bits) >= 2
    /\ out.res.val # bits

---------------------------------------------------------------------------
(* Properties of the magic tables *)

\* the slot of the blocker subset under entry e with 1 <= index_bits
SlotOf(e, blockers) == Magic_index(e, blockers, FALSE).val

---------------------------------------------------------------------------
(* Properties of the Zobrist hash *)

\* the features present in a position: each piece on its square, black to
\* move, each granted castling right, the en passant file
PieceFeatures(b) ==
    {<<"piece", s, Unwrap(b.pieces[s])>> : s \in {t \in Square : IsSome(b.pieces[t])}}

Features(b, pos) ==
    PieceFeatures(b)
        \cup (IF pos.turn = Black THEN {<<"black to move">>} ELSE {})
        \cup {<<"castling", x[1], x[2]>> :
                 x \in {y \in Color \X CastlingSide : Can_castle(pos.castling, y[1], y[2])}}
        \cup (IF IsSome(pos.en_passant)
              THEN {<<"en passant", Square_file(Unwrap(pos.en_passant))>>}
              ELSE {})

\* the constant of a feature
ConstantOf(f, bld) ==
    CASE f[1] = "piece" -> Board_ZOBRIST_PRNS(bld, f[2], f[3][1], f[3][2])
      [] f[1] = "black to move" -> Color_ZOBRIST_PRN(bld)
      [] f[1] = "castling" -> Castling_ZOBRIST_PRNS(bld, f[2], f[3])
      [] f[1] = "en passant" -> File_ZOBRIST_PRNS(bld, f[2])

\* the XOR of the constants of a set of features, whatever the order: bit i
\* is set iff an odd number of the constants have it
XorOfFeatures(F, bld) ==
    {i \in 0 .. 63 : Cardinality({f \in F : i \in ConstantOf(f, bld)}) % 2 = 1}

\* C20: the hash of a position is the XOR of the constants of its present
\* features, whatever the order; hash(before) XOR hash(changed features) =
\* hash(after) for a change of features, and moving one piece from a to an
\* empty b changes the hash by exactly (constant of the piece on a) XOR
\* (constant of the piece on b).
C20_HashIsXor ==
    (out # <<>> /\ out.op = "hash") =>
        /\ out.res.ok
        /\ out.res.val = XorOfFeatures(Features(board, position), build)
        /\ \A pos \in Positions :
              LET after == PositionHash(board, pos, build, debug_assertions)
                  changed == (Features(board, position) \ Features(board, pos))
                                \cup (Features(board, pos) \ Features(board, position))
              IN  after.ok /\ after.val = Xor(out.res.val, XorOfFeatures(changed, build))
        /\ \A a \in Squares, b \in Squares :
              (MovePre(board, a, b) /\ board.pieces[b] = None) =>
                  LET moved == Move(board, a, b, debug_assertions)
                      p == Unwrap(board.pieces[a])
                      after == PositionHash(moved.board, position, build, debug_assertions)
                  IN  moved.ok =>
                        /\ after.ok
                        /\ after.val =
                              Xor(out.res.val,
                                  Xor(ConstantOf(<<"piece", a, p>>, build),
                                      ConstantOf(<<"piece", b, p>>, build)))

\* C21: hashing the same position twice gives the same value; moving one
\* piece from a to an empty square b, a # b, gives a position whose hash
\* differs, and moving it back from b to a gives the original hash again.
C21_HashMoveAndBack ==
    (out # <<>> /\ out.op = "hash") =>
        /\ PositionHash(out.arg, position, build, debug_assertions) = out.res
        /\ \A a \in Squares, b \in Squares :
              (a # b /\ MovePre(board, a, b) /\ board.pieces[b] = None) =>
                  LET moved == Move(board, a, b, debug_assertions)
                      after == PositionHash(moved.board, position, build, debug_assertions)
                      back == Move(moved.board, b, a, debug_assertions)
                      again == PositionHash(back.board, position, build, debug_assertions)
                  IN  (out.res.ok /\ moved.ok /\ back.ok) =>
                        /\ after.ok /\ after.val # out.res.val
                        /\ again.ok /\ again.val = out.res.val

\* C22: every hashed feature has a constant of its own: the board entries
\* (one per square, colour and role), the four castling entries and the
\* eight file entries are pairwise different values, so two positions that
\* differ in the square or role of one piece, in which castling right is
\* granted, or in the en passant file do not get equal hashes by construction.
C22_SeparateConstants ==
    (out # <<>> /\ out.op = "hash") =>
        /\ \A f \in PieceFeatures(board), s \in Square, r \in ITER_PIECE \cup {King} :
              (<<s, r>> # <<f[2], f[3][2]>>) =>
                  ConstantOf(f, build) # ConstantOf(<<"piece", s, Piece(f[3][1], r)>>, build)
        /\ \A x \in Color \X CastlingSide, y \in Color \X CastlingSide :
              (x # y) =>
                  ConstantOf(<<"castling", x[1], x[2]>>, build)
                      # ConstantOf(<<"castling", y[1], y[2]>>, build)
        /\ \A f \in File, g \in File :
              (f # g) =>
                  ConstantOf(<<"en passant", f>>, build) # ConstantOf(<<"en passant", g>>, build)

\* C23: remove(c, cs) clears exactly one right: afterwards
\* get(c).can_castle(cs) is false and the other three rights are as before;
\* clear() leaves all four rights false; after set(c, cr), get(c) is cr and
\* the rights of the other colour are as before.
C23_CastlingUpdates ==
    (out # <<>>) =>
        LET before == out.arg[1]
            now == position.castling
        IN  /\ (out.op = "remove") =>
                  /\ ~Can_castle(now, out.arg[2], out.arg[3])
                  /\ \A c \in Color, cs \in CastlingSide :
                        (<<c, cs>> # <<out.arg[2], out.arg[3]>>) =>
                            Can_castle(now, c, cs) = Can_castle(before, c, cs)
            /\ (out.op = "clear") =>
                  \A c \in Color, cs \in CastlingSide : ~Can_castle(now, c, cs)
            /\ (out.op = "set") =>
                  /\ CastlingGet(now, out.arg[2]) = out.arg[3]
                  /\ CastlingGet(now, Other(out.arg[2])) = CastlingGet(before, Other(out.arg[2]))

\* the characters of the ranks and of the files, lowest first
RankChars == <<"1", "2", "3", "4", "5", "6", "7", "8">>
FileChars == <<"a", "b", "c", "d", "e", "f", "g", "h">>

Ascending(seq, n) ==
    /\ Len(seq) = n
    /\ \A i \in 1 .. n : seq[i] = i - 1

\* C24: an integer 0..7 converts to the rank or file with that discriminant
\* and any other integer i to Err(i); '1'..'8' convert to the ranks First..
\* Eighth, 'a'..'h' to the files A..H, and any other character ch to
\* Err(ch); converting a rank or file to its character and back gives it
\* again; Rank::iter, File::iter and Square::iter yield every value once, in
\* ascending order.
C24_RankFileConversions ==
    (out # <<>>) =>
        /\ (out.op \in {"rank_try_from", "file_try_from"}) =>
              /\ out.res.ok = (out.arg >= 0 /\ out.arg <= 7)
              /\ out.res.val = out.arg
        /\ (out.op = "rank_try_from_char") =>
              /\ out.res.ok = (\E r \in 1 .. 8 : RankChars[r] = out.arg)
              /\ out.res.ok => RankChars[out.res.val + 1] = out.arg
              /\ ~out.res.ok => out.res.val = out.arg
        /\ (out.op = "file_try_from_char") =>
              /\ out.res.ok = (\E f \in 1 .. 8 : FileChars[f] = out.arg)
              /\ out.res.ok => FileChars[out.res.val + 1] = out.arg
              /\ ~out.res.ok => out.res.val = out.arg
        /\ (out.op = "char_from_rank") =>
              /\ out.res = RankChars[out.arg + 1]
              /\ RankTry_from_char(out.res).ok
              /\ RankTry_from_char(out.res).val = out.arg
        /\ (out.op = "char_from_file") =>
              /\ out.res = FileChars[out.arg + 1]
              /\ FileTry_from_char(out.res).ok
              /\ FileTry_from_char(out.res).val = out.arg
        /\ (out.op \in {"rank_iter", "file_iter"}) => Ascending(out.res, 8)
        /\ (out.op = "square_iter") => Ascending(out.res, 64)

\* a file was converted to 'h' and 'h' was converted back to the file H
C24_Witness ==
    /\ out # <<>>
    /\ out.op = "file_try_from_char"
    /\ out.arg = "h"
    /\ out.res = Ok(7)

\* the multipliers of the pool whose table try_make_table accepts
CollisionFree ==
    {magic \in DrawPool :
        Try_make_table(MagicEntry(bits, magic, out.arg), attacks, debug_assertions).kind = "Ok"}

Searching == status = "ok" /\ out.res = <<>>

\* the candidate of the last pass was rejected by try_make_table
CandidateFailed ==
    /\ entry # <<>>
    /\ Try_make_table(entry, attacks, debug_assertions).kind = "Err"

FindSafe ==
    /\ (out.res # <<>>) =>
          LET t == Try_make_table(out.res[1], attacks, debug_assertions)
          IN  /\ out.res[1] = entry
              /\ out.res[1].mask = bits /\ out.res[1].index_bits = out.arg
              /\ t.kind = "Ok"
              /\ out.res[2] = t.table
    /\ CandidateFailed => Searching

C27_MagicIndexInRange ==
    /\ (out # <<>> /\ out.op = "magic_index") =>
          LET hash == Wrapping_mul(out.arg \cap entry.mask, entry.magic) IN
          /\ out.res.ok
          /\ 64 - entry.index_bits < 64
          /\ out.res.val = Shr(hash, 64 - entry.index_bits)
          /\ out.res = Magic_index(entry, out.arg \cap entry.mask, debug_assertions)
          /\ \A i \in out.res.val : i < entry.index_bits
    /\ (out # <<>> /\ out.op = "try_make_table") => out.res.kind # "panic"

\* C28: from state h, after write_u64(x), finish() is h XOR x for every h and
\* x: each byte is XOR-ed at its own byte position, with a shift amount that
\* is always below 64.
C28_WriteXorsWholeConstant ==
    (out # <<>> /\ out.op = "write_u64") =>
        /\ out.res.ok
        /\ out.res.val = Xor(out.arg[1], out.arg[2])
        /\ \A amount \in out.res.made : amount < 64

====
